---- MODULE Spec2Model ----
(***************************************************************************)
(* Model of crawl_wayback.py: the Wayback-snapshot mirroring crawler.      *)
(* Python str values are TLA+ strings; Len, Slice and \o act on them      *)
(* character by character.  Optional[str] is a record [ok, val].           *)
(***************************************************************************)
EXTENDS Integers, Sequences, FiniteSets, TLC

(***************************************************************************)
(* Python str primitives                                                   *)
(***************************************************************************)
None == [ok |-> FALSE, val |-> ""]
Some(s) == [ok |-> TRUE, val |-> s]

\* the Python slice s[i-1:j]: positions i..j (1-based), clamped to the string
Slice(s, i, j) ==
  LET lo == IF i < 1 THEN 1 ELSE i
      hi == IF j > Len(s) THEN Len(s) ELSE j
  IN IF lo > hi THEN "" ELSE SubSeq(s, lo, hi)

Char(s, i) == Slice(s, i, i)
From(s, i) == Slice(s, i, Len(s))

\* str.startswith / str.endswith
StartsWith(s, p) == Len(s) >= Len(p) /\ Slice(s, 1, Len(p)) = p
EndsWith(s, p) == Len(s) >= Len(p) /\ Slice(s, Len(s) - Len(p) + 1, Len(s)) = p

\* str.find(p, from): least index >= from (1-based) where p occurs, 0 if none
RECURSIVE FindFrom(_, _, _)
FindFrom(s, p, i) ==
  IF i + Len(p) - 1 > Len(s) THEN 0
  ELSE IF Slice(s, i, i + Len(p) - 1) = p THEN i
  ELSE FindFrom(s, p, i + 1)

Find(s, p) == FindFrom(s, p, 1)

\* `p in s`
Contains(s, p) == Find(s, p) # 0

\* str.rfind(c): greatest index where the character c occurs, 0 if none
RECURSIVE RFindTo(_, _, _)
RFindTo(s, c, i) ==
  IF i = 0 THEN 0
  ELSE IF Char(s, i) = c THEN i
  ELSE RFindTo(s, c, i - 1)

RFind(s, c) == RFindTo(s, c, Len(s))

\* str.lstrip("/")
RECURSIVE LStripSlash(_)
LStripSlash(s) ==
  IF Len(s) > 0 /\ Char(s, 1) = "/" THEN LStripSlash(From(s, 2)) ELSE s

\* str.replace(old, new), old non-empty: leftmost non-overlapping occurrences
RECURSIVE Replace(_, _, _)
Replace(s, old, new) ==
  IF Len(s) < Len(old) THEN s
  ELSE IF Slice(s, 1, Len(old)) = old
       THEN new \o Replace(From(s, Len(old) + 1), old, new)
       ELSE Char(s, 1) \o Replace(From(s, 2), old, new)

\* str.split("/")
RECURSIVE SplitSlash(_)
SplitSlash(s) ==
  LET i == Find(s, "/")
  IN IF i = 0 THEN <<s>>
     ELSE <<Slice(s, 1, i - 1)>> \o SplitSlash(From(s, i + 1))

\* "/".join(parts)
RECURSIVE JoinSlash(_)
JoinSlash(parts) ==
  IF parts = <<>> THEN ""
  ELSE IF Len(parts) = 1 THEN parts[1]
  ELSE parts[1] \o "/" \o JoinSlash(Tail(parts))

Digits == {"0", "1", "2", "3", "4", "5", "6", "7", "8", "9"}
Lower == {"a", "b", "c", "d", "e", "f", "g", "h", "i", "j", "k", "l", "m",
          "n", "o", "p", "q", "r", "s", "t", "u", "v", "w", "x", "y", "z"}
Upper == {"A", "B", "C", "D", "E", "F", "G", "H", "I", "J", "K", "L", "M",
          "N", "O", "P", "Q", "R", "S", "T", "U", "V", "W", "X", "Y", "Z"}

\* every character of s[i..j] lies in the class cls
AllIn(s, i, j, cls) == \A k \in i..j : Char(s, k) \in cls

(***************************************************************************)
(* URL classification and normalisation                                    *)
(***************************************************************************)
SNAPSHOT_TIMESTAMP == "20250408214013"
WAYBACK_PREFIX == "https://web.archive.org/web/" \o SNAPSHOT_TIMESTAMP

\* normalize_archived_url giving the protocol-relative form the scheme http
normalize_scheme_http(url) ==
  IF url = "" THEN None
  ELSE IF StartsWith(url, "//web.archive.org/") THEN Some("http:" \o url)
  ELSE IF StartsWith(url, "/web/") THEN Some("https://web.archive.org" \o url)
  ELSE IF StartsWith(url, "https://web.archive.org/web/") THEN Some(url)
  ELSE None

normalize_archived_url(url) ==
  IF url = "" THEN None
  ELSE IF StartsWith(url, "//web.archive.org/") THEN Some("https:" \o url)
  ELSE IF StartsWith(url, "/web/") THEN Some("https://web.archive.org" \o url)
  ELSE IF StartsWith(url, "https://web.archive.org/web/") THEN Some(url)
  ELSE IF StartsWith(url, WAYBACK_PREFIX) THEN Some(url)
  ELSE None

\* the set of ends e of a match of  ^https?://web\.archive\.org/web/\d{14}[a-z_\-]*/
\* against s, as positions of the closing "/"
ArchiveHeadEnds(s) ==
  LET schemeLen == IF StartsWith(s, "https") THEN 5
                   ELSE IF StartsWith(s, "http") THEN 4 ELSE 0
      host == "://web.archive.org/web/"
      d0 == schemeLen + Len(host) + 1
  IN IF schemeLen = 0 \/ Slice(s, schemeLen + 1, schemeLen + Len(host)) # host
        \/ Len(s) < d0 + 13 \/ ~AllIn(s, d0, d0 + 13, Digits)
     THEN {}
     ELSE {e \in (d0 + 14)..Len(s) :
             /\ AllIn(s, d0 + 14, e - 1, Lower \cup {"_", "-"})
             /\ Char(s, e) = "/"}

\* does  (https?://.+)$  match s from position i to the end
OriginalTailAt(s, i) ==
  LET t == From(s, i)
  IN \/ StartsWith(t, "https://") /\ Len(t) > 8
     \/ StartsWith(t, "http://") /\ Len(t) > 7

\* extract_original_url with the modifier class [a-z_\-]* left out of the pattern
extract_without_modifier(archived_url) ==
  LET ends == {e \in ArchiveHeadEnds(archived_url) :
                 /\ OriginalTailAt(archived_url, e + 1)
                 /\ Char(archived_url, e - 1) \in Digits}
  IN IF ends = {} THEN None
     ELSE LET e == CHOOSE x \in ends : \A y \in ends : y <= x
          IN Some(From(archived_url, e + 1))

extract_original_url(archived_url) ==
  LET ends == {e \in ArchiveHeadEnds(archived_url) :
                 OriginalTailAt(archived_url, e + 1)}
  IN IF ends = {} THEN None
     ELSE LET e == CHOOSE x \in ends : \A y \in ends : y <= x
          IN Some(From(archived_url, e + 1))

\* is_in_snapshot testing for the archive, whatever the capture
is_in_snapshot_any_capture(archived_url) ==
  StartsWith(archived_url, "https://web.archive.org/web/")

is_in_snapshot(archived_url) == StartsWith(archived_url, WAYBACK_PREFIX)

(***************************************************************************)
(* urllib.parse.urlparse, restricted to the netloc and path it returns     *)
(***************************************************************************)
UpperSeq == "ABCDEFGHIJKLMNOPQRSTUVWXYZ"
LowerSeq == "abcdefghijklmnopqrstuvwxyz"

RECURSIVE ToLower(_)
ToLower(s) ==
  IF s = "" THEN ""
  ELSE LET c == Char(s, 1)
       IN (IF c \in Upper THEN Char(LowerSeq, Find(UpperSeq, c)) ELSE c)
          \o ToLower(From(s, 2))

SchemeChars == Lower \cup Upper \cup Digits \cup {"+", "-", "."}
UsesParams == {"", "ftp", "hdl", "prospero", "http", "imap", "https", "shttp",
               "rtsp", "rtspu", "sip", "sips", "mms", "sftp", "tel"}

\* least index >= i of a character of s in cls, Len(s) + 1 if none
RECURSIVE FirstOf(_, _, _)
FirstOf(s, cls, i) ==
  IF i > Len(s) THEN Len(s) + 1
  ELSE IF Char(s, i) \in cls THEN i
  ELSE FirstOf(s, cls, i + 1)

\* s up to, and without, the first occurrence of the character c
Before(s, c) == LET i == Find(s, c) IN IF i = 0 THEN s ELSE Slice(s, 1, i - 1)

\* urlsplit: the scheme and what follows it, colon being the index of the
\* first ":" of url
SplitScheme(url, colon) ==
  IF /\ colon > 1
     /\ Char(url, 1) \in Lower \cup Upper
     /\ AllIn(url, 1, colon - 1, SchemeChars)
  THEN [scheme |-> ToLower(Slice(url, 1, colon - 1)), url |-> From(url, colon + 1)]
  ELSE [scheme |-> "", url |-> url]

\* urlsplit: the netloc and what follows it, delim being the index of the
\* first of "/", "?", "#" after the two slashes
SplitNetloc(url, delim) ==
  IF StartsWith(url, "//")
  THEN [has |-> TRUE, netloc |-> Slice(url, 3, delim - 1), url |-> From(url, delim)]
  ELSE [has |-> FALSE, netloc |-> "", url |-> url]

\* urlparse: the path without its parameters, semi being the index of the
\* first ";" of the last path segment
SplitParams(scheme, url, semi) ==
  IF scheme \in UsesParams /\ semi # 0 THEN Slice(url, 1, semi - 1) ELSE url

\* the parts crawl uses, url being the path without fragment and query
ParseResult(scheme, nl, url) ==
  [raises |-> nl.has /\ (Contains(nl.netloc, "[") # Contains(nl.netloc, "]")),
   netloc |-> nl.netloc,
   path |-> SplitParams(scheme, url, FindFrom(url, ";", RFind(url, "/") + 1))]

ParseNetloc(scheme, nl) == ParseResult(scheme, nl, Before(Before(nl.url, "#"), "?"))

ParseRest(s) ==
  ParseNetloc(s.scheme, SplitNetloc(s.url, FirstOf(s.url, {"/", "?", "#"}, 3)))

urlparse(url) == ParseRest(SplitScheme(url, Find(url, ":")))

(***************************************************************************)
(* os.path (posix)                                                         *)
(***************************************************************************)
\* os.path.splitext(p)[1]
splitext_ext(p) ==
  LET sepIndex == RFind(p, "/")
      dotIndex == RFind(p, ".")
  IN IF dotIndex > sepIndex
        /\ \E k \in (sepIndex + 1)..(dotIndex - 1) : Char(p, k) # "."
     THEN From(p, dotIndex) ELSE ""

\* os.path.join(a, b)
join(a, b) ==
  IF StartsWith(b, "/") THEN b
  ELSE IF a = "" \/ EndsWith(a, "/") THEN a \o b
  ELSE a \o "/" \o b

RECURSIVE RStripSlash(_)
RStripSlash(s) ==
  IF Len(s) > 0 /\ Char(s, Len(s)) = "/"
  THEN RStripSlash(Slice(s, 1, Len(s) - 1)) ELSE s

\* os.path.dirname(p)
dirname(p) ==
  LET head == Slice(p, 1, RFind(p, "/"))
  IN IF head # "" /\ RStripSlash(head) # "" THEN RStripSlash(head) ELSE head

\* the component loop of os.path.normpath, for a path with a leading slash
RECURSIVE NormComps(_, _)
NormComps(comps, acc) ==
  IF comps = <<>> THEN acc
  ELSE LET c == Head(comps)
       IN IF c \in {"", "."} THEN NormComps(Tail(comps), acc)
          ELSE IF c = ".."
               THEN NormComps(Tail(comps),
                              IF acc = <<>> THEN acc
                              ELSE SubSeq(acc, 1, Len(acc) - 1))
          ELSE NormComps(Tail(comps), Append(acc, c))

\* the working directory of the process
Cwd == "/srv/mirror"

\* os.path.abspath(p), as the list of its components
abspath_list(p) == NormComps(SplitSlash(join(Cwd, p)), <<>>)

\* os.path.abspath(p)
abspath(p) == "/" \o JoinSlash(abspath_list(p))

\* length of the longest common prefix of two component lists
RECURSIVE CommonLen(_, _)
CommonLen(a, b) ==
  IF a = <<>> \/ b = <<>> \/ Head(a) # Head(b) THEN 0
  ELSE 1 + CommonLen(Tail(a), Tail(b))

\* rel_list of os.path.relpath, i being the length of the common prefix
RelList(start_list, path_list, i) ==
  [k \in 1..(Len(start_list) - i) |-> ".."] \o SubSeq(path_list, i + 1, Len(path_list))

\* what os.path.relpath returns for rel_list
RelJoin(rel_list) == IF rel_list = <<>> THEN "." ELSE JoinSlash(rel_list)

RelPathOf(start_list, path_list) ==
  RelJoin(RelList(start_list, path_list, CommonLen(start_list, path_list)))

\* os.path.relpath(path, start)
relpath(path, start) == RelPathOf(abspath_list(start), abspath_list(path))

(***************************************************************************)
(* Local path mapping                                                      *)
(***************************************************************************)
\* content_type and "text/html" in content_type
IsHtml(content_type) == content_type.ok /\ Contains(content_type.val, "text/html")

\* lines 61-63
IndexPath(path) ==
  IF path = "" \/ EndsWith(path, "/")
  THEN (IF path = "" THEN "/" ELSE path) \o "index.html"
  ELSE path

\* lines 64-67
HtmlPath(path, content_type) ==
  IF splitext_ext(path) = "" /\ IsHtml(content_type) THEN path \o ".html" ELSE path

\* lines 59-68, for the parsed original address
LocalPath(root_dir, parsed, content_type) ==
  join(join(root_dir, parsed.netloc),
       LStripSlash(HtmlPath(IndexPath(parsed.path), content_type)))

guess_local_path(root_dir, original_url, content_type) ==
  LocalPath(root_dir, urlparse(original_url), content_type)

(***************************************************************************)
(* The archive as the crawler sees it: what a fetch can return             *)
(***************************************************************************)
Home == WAYBACK_PREFIX \o "/https://example.com/"
About == WAYBACK_PREFIX \o "/https://example.com/about"
LogoRef == "/web/20250408214013im_/https://example.com/about/logo.png"
StyleRef == "//web.archive.org/web/20250408214013cs_/https://example.com/../../site.css"
Bare == WAYBACK_PREFIX \o "/about"
BareChild == WAYBACK_PREFIX \o "/about/x"
External == "https://example.com/contact"
OtherCapture == "https://web.archive.org/web/20240101000000/https://example.com/old"
LogoAddr == "https://web.archive.org" \o LogoRef
StyleAddr == "https:" \o StyleRef

\* the seed addresses a run can be started with
Seeds == {Home, "/web/20250408214013/https://example.com/", External, OtherCapture}

\* the home page as a link with a query string gives it, a seed as well
HomeQueryRef == "/web/20250408214013/https://example.com/?ref=nav"
QuerySeeds == {HomeQueryRef}

\* a markup document is the sequence of the reference values its markup carries
\* (the values of href/src/data-src/data-href, srcset entries and url(...))
Docs == {<<>>,
         <<BareChild>>,
         <<About, LogoRef, External>>,
         <<Home, OtherCapture, About>>,
         <<StyleRef, Bare>>}

ContentTypes == {None, Some("text/html; charset=utf-8"), Some("image/png")}

\* what session.get can answer: a failure, or a body with its Content-Type
Responses ==
  {[ok |-> FALSE, content |-> <<>>, content_type |-> None]}
  \cup {[ok |-> TRUE, content |-> d, content_type |-> t] :
          d \in Docs, t \in {c \in ContentTypes : IsHtml(c)}}
  \cup {[ok |-> TRUE, content |-> <<"bytes">>, content_type |-> t] :
          t \in {c \in ContentTypes : ~IsHtml(c)}}

OutDir == "out"

\* every string that can reach the crawler as a seed or as a reference value
RefValues == Seeds \cup QuerySeeds \cup UNION {{d[i] : i \in DOMAIN d} : d \in Docs}

(***************************************************************************)
(* The pure functions, tabulated once over the strings of the model        *)
(***************************************************************************)
NormalizedOf == [v \in RefValues |-> normalize_archived_url(v)]

\* every address a run can hold in its queue, whatever the seed check does
Addresses ==
  RefValues \cup {NormalizedOf[v].val : v \in {w \in RefValues : NormalizedOf[w].ok}}

InSnapshot == {a \in Addresses : is_in_snapshot(a)}

OriginalOf == [a \in Addresses |-> extract_original_url(a)]

\* lines 143-146
OriginOf == [a \in Addresses |-> IF OriginalOf[a].ok THEN OriginalOf[a].val ELSE a]

ParseRaises == {a \in Addresses : urlparse(OriginOf[a]).raises}

\* line 148, for each address and each Content-Type
LocalPathOf ==
  [a \in Addresses |-> [t \in ContentTypes |-> guess_local_path(OutDir, OriginOf[a], t)]]

\* line 172
TargetOf == [a \in Addresses |-> guess_local_path(OutDir, OriginOf[a], None)]

LocalPaths == {LocalPathOf[a][t] : a \in Addresses, t \in ContentTypes}

\* line 167
CurrentDirOf ==
  [p \in LocalPaths |-> IF dirname(p) = "" THEN "." ELSE dirname(p)]

\* the absolute path reached after each component of p, in order
Prefixes(p) ==
  LET comps == SplitSlash(join(Cwd, p))
  IN [k \in 1..Len(comps) |-> "/" \o JoinSlash(NormComps(SubSeq(comps, 1, k), <<>>))]

Paths == {OutDir} \cup UNION {{p, dirname(p)} : p \in LocalPaths}
PrefixesOf == [p \in Paths |-> Prefixes(p)]
AbsOf == [p \in Paths |-> abspath(p)]
DirnameOf == [p \in LocalPaths |-> dirname(p)]

(***************************************************************************)
(* The file system under the working directory.  A path is resolved        *)
(* component by component; dirs holds the absolute paths of the            *)
(* directories, files maps the absolute path of each regular file to what  *)
(* was written to it.                                                      *)
(***************************************************************************)
VARIABLES
  dirs,               \* absolute paths of the directories that exist
  files,              \* absolute path of a regular file -> [url, body] written
  pc,                 \* position of crawl(): start, loop, fetch, save, sleep,
                      \*   done (returned), exit (sys.exit(1)), raised (exception)
  start_archived_url, \* crawl()'s first argument
  visited,            \* crawl()'s visited set
  q,                  \* crawl()'s queue
  current,            \* the address dequeued last
  response,           \* what fetch returned for current
  fetched,            \* the addresses passed to fetch, in call order
  found,              \* the links find_links_to_follow returned so far
  written,            \* the [url, path] of each completed open(local_path,'wb')
  rewrites,           \* the [doc, link, target, rel] of each replacement made
  paused,             \* time.sleep was called since fetch was last called
  enqueued,           \* the addresses given to q.put, in the order of their
                      \*   first put
  linked,             \* the <<document, link>> of each link extracted
  raw,                \* the argument of a call of a URL function on its own
  result,             \* what that call returned
  call                \* which function was called: none, normalize, extract

vars == <<dirs, files, pc, start_archived_url, visited, q, current, response,
          fetched, found, written, rewrites, paused, enqueued, linked,
          raw, result, call>>

urlVars == <<raw, result, call>>
crawlVars == <<dirs, files, pc, start_archived_url, visited, q, current,
               response, fetched, found, written, rewrites, paused, enqueued,
               linked>>

\* os.path.exists(p)
exists(p) ==
  \E pre \in {PrefixesOf[p]}, abs \in {AbsOf[p]} :
    /\ \A k \in 1..(Len(pre) - 1) : pre[k] \in dirs
    /\ abs \in dirs \/ abs \in DOMAIN files

\* os.makedirs(p, exist_ok=True) raises when a component of p is a regular file
makedirs_raises(p) ==
  \E pre \in {PrefixesOf[p]} : \E k \in DOMAIN pre : pre[k] \in DOMAIN files

\* the directories made along the components pre of a path: all up to, and
\* without, the first that is a regular file
MadeDirs(pre) ==
  {pre[k] : k \in {j \in DOMAIN pre : \A i \in 1..j : pre[i] \notin DOMAIN files}}

\* the directories after os.makedirs(p, exist_ok=True)
makedirs_dirs(p) == dirs \cup MadeDirs(PrefixesOf[p])

\* line 23, for the directory d of the path
MissingDir(d) == d # "" /\ ~exists(d)

\* ensure_directory_for_file(path): does the call raise / the directories after it
ensure_directory_raises(path) ==
  \E d \in {DirnameOf[path]} : MissingDir(d) /\ makedirs_raises(d)

EnsuredDirs(d) == IF MissingDir(d) THEN makedirs_dirs(d) ELSE dirs

ensure_directory_dirs(path) == EnsuredDirs(DirnameOf[path])

\* open(path, 'wb') raises: a missing or non-directory parent, or path is a directory
open_raises(path, ds) ==
  \E pre \in {PrefixesOf[path]} :
    \/ \E k \in 1..(Len(pre) - 1) : pre[k] \notin ds
    \/ AbsOf[path] \in ds

(***************************************************************************)
(* find_links_to_follow, on the reference values of a document             *)
(***************************************************************************)
find_links_to_follow(html) ==
  {NormalizedOf[html[i]].val : i \in
     {j \in DOMAIN html : /\ NormalizedOf[html[j]].ok
                          /\ is_in_snapshot(NormalizedOf[html[j]].val)}}

LinksOf == [d \in Docs |-> find_links_to_follow(d)]

\* the orders in which a Python set can be iterated
RECURSIVE Orders(_)
Orders(S) ==
  IF S = {} THEN {<<>>}
  ELSE UNION {{<<a>> \o o : o \in Orders(S \ {a})} : a \in S}

OrdersOf == [d \in Docs |-> Orders(LinksOf[d])]

(***************************************************************************)
(* The link rewriter                                                       *)
(***************************************************************************)
\* lines 166-174: the replacement map as its (link, target, rel) entries in
\* insertion order, for the links iterated in order ord
RECURSIVE Recoverable(_)
Recoverable(ord) ==
  IF ord = <<>> THEN <<>>
  ELSE (IF OriginalOf[Head(ord)].ok THEN <<Head(ord)>> ELSE <<>>)
       \o Recoverable(Tail(ord))

\* lines 172-174: one entry of the map
Replacement(link, target_local, current_dir) ==
  [link |-> link, target |-> target_local, rel |-> relpath(target_local, current_dir)]

ReplacementsFor(keep, current_dir) ==
  [k \in DOMAIN keep |-> Replacement(keep[k], TargetOf[keep[k]], current_dir)]

Replacements(ord, current_dir) == ReplacementsFor(Recoverable(ord), current_dir)

\* lines 177-179, on one stretch of the text
RECURSIVE ReplaceEach(_, _)
ReplaceEach(text, repl) ==
  IF repl = <<>> THEN text
  ELSE ReplaceEach(Replace(text, Head(repl).link, Head(repl).rel), Tail(repl))

Rewritten(html, repl) == [i \in DOMAIN html |-> ReplaceEach(html[i], repl)]

CurrentDirs == {CurrentDirOf[p] : p \in LocalPaths}

ReplacementsOf ==
  [d \in Docs |-> [ord \in OrdersOf[d] |-> [dir \in CurrentDirs |->
     Replacements(ord, dir)]]]

RewrittenOf ==
  [d \in Docs |-> [ord \in OrdersOf[d] |-> [dir \in CurrentDirs |->
     Rewritten(d, ReplacementsOf[d][ord][dir])]]]

(***************************************************************************)
(* crawl()                                                                 *)
(***************************************************************************)
NoResponse == [ok |-> FALSE, content |-> <<>>, content_type |-> None]

InitRun ==
  /\ dirs = {"/", "/srv", "/srv/mirror"}
  /\ files = [p \in {} |-> [url |-> "", body |-> <<>>]]
  /\ pc = "start"
  /\ visited = {}
  /\ q = <<>>
  /\ current = ""
  /\ response = NoResponse
  /\ fetched = <<>>
  /\ found = {}
  /\ written = <<>>
  /\ rewrites = {}
  /\ paused = FALSE
  /\ enqueued = <<>>
  /\ linked = {}

InitCrawl == InitRun /\ start_archived_url \in Seeds

Init == InitCrawl /\ raw = "" /\ result = None /\ call = "none"

\* crawl started at an address that carries a query string
InitQuery ==
  /\ InitRun
  /\ start_archived_url \in QuerySeeds
  /\ raw = "" /\ result = None /\ call = "none"

\* Start without the in-snapshot check of the seed (lines 123-125 left out)
StartUnchecked ==
  /\ UNCHANGED urlVars
  /\ pc = "start"
  /\ dirs' = IF exists(OutDir) THEN dirs ELSE makedirs_dirs(OutDir)
  /\ LET n == NormalizedOf[start_archived_url]
         normalized_start == IF n.ok THEN n.val ELSE start_archived_url
     IN /\ pc' = "loop"
        /\ q' = Append(q, normalized_start)
        /\ enqueued' = Append(enqueued, normalized_start)
  /\ UNCHANGED <<files, start_archived_url, visited, current, response,
                 fetched, found, written, rewrites, paused, linked>>

\* lines 113-126: create out_dir, check the seed, seed the queue
Start ==
  /\ UNCHANGED urlVars
  /\ pc = "start"
  /\ dirs' = IF exists(OutDir) THEN dirs ELSE makedirs_dirs(OutDir)
  /\ LET n == NormalizedOf[start_archived_url]
         normalized_start == IF n.ok THEN n.val ELSE start_archived_url
     IN IF ~is_in_snapshot(normalized_start)
        THEN pc' = "exit" /\ q' = q /\ enqueued' = enqueued
        ELSE /\ pc' = "loop"
             /\ q' = Append(q, normalized_start)
             /\ enqueued' = Append(enqueued, normalized_start)
  /\ UNCHANGED <<files, start_archived_url, visited, current, response,
                 fetched, found, written, rewrites, paused, linked>>

\* line 133: the queue is empty, crawl returns
Return ==
  /\ UNCHANGED urlVars
  /\ pc = "loop"
  /\ q = <<>>
  /\ pc' = "done"
  /\ UNCHANGED <<dirs, files, start_archived_url, visited, q, current,
                 response, fetched, found, written, rewrites, paused,
                 enqueued, linked>>

\* Dequeue without the test of the visited set (lines 135-136 left out)
DequeueUnchecked ==
  /\ UNCHANGED urlVars
  /\ pc = "loop"
  /\ q # <<>>
  /\ current' = Head(q)
  /\ q' = Tail(q)
  /\ pc' = "fetch"
  /\ visited' = visited \cup {Head(q)}
  /\ UNCHANGED <<dirs, files, start_archived_url, response, fetched, found,
                 written, rewrites, paused, enqueued, linked>>

\* Dequeue taking the address put last (a stack in place of the queue)
DequeueLast ==
  /\ UNCHANGED urlVars
  /\ pc = "loop"
  /\ q # <<>>
  /\ current' = q[Len(q)]
  /\ q' = SubSeq(q, 1, Len(q) - 1)
  /\ IF q[Len(q)] \in visited
     THEN pc' = "loop" /\ visited' = visited
     ELSE pc' = "fetch" /\ visited' = visited \cup {q[Len(q)]}
  /\ UNCHANGED <<dirs, files, start_archived_url, response, fetched, found,
                 written, rewrites, paused, enqueued, linked>>

\* lines 134-137: dequeue; an address seen before is dropped, a new one is
\* marked visited and goes on to be fetched
Dequeue ==
  /\ UNCHANGED urlVars
  /\ pc = "loop"
  /\ q # <<>>
  /\ current' = Head(q)
  /\ q' = Tail(q)
  /\ IF Head(q) \in visited
     THEN pc' = "loop" /\ visited' = visited
     ELSE pc' = "fetch" /\ visited' = visited \cup {Head(q)}
  /\ UNCHANGED <<dirs, files, start_archived_url, response, fetched, found,
                 written, rewrites, paused, enqueued, linked>>

\* lines 139-141 with fetch (101-109): a failure goes straight back to the loop
Fetch ==
  /\ UNCHANGED urlVars
  /\ pc = "fetch"
  /\ \E r \in Responses :
       /\ response' = r
       /\ pc' = IF r.ok THEN "save" ELSE "loop"
  /\ fetched' = Append(fetched, current)
  /\ paused' = FALSE
  /\ UNCHANGED <<dirs, files, start_archived_url, visited, q, current, found,
                 written, rewrites, enqueued, linked>>

\* Enqueue putting only the first of the discovered links
EnqueueFirst(queue, ord, vis) ==
  LET new == SelectSeq(ord, LAMBDA link : link \notin vis /\ is_in_snapshot(link))
  IN queue \o (IF new = <<>> THEN <<>> ELSE <<Head(new)>>)

\* lines 161-163: the queue after the discovered links, iterated in order ord
Enqueue(queue, ord, vis) ==
  queue \o SelectSeq(ord, LAMBDA link : link \notin vis /\ is_in_snapshot(link))

\* the order of first puts after the addresses of puts were put, in order
RECURSIVE FirstPuts(_, _)
FirstPuts(order, puts) ==
  IF puts = <<>> THEN order
  ELSE FirstPuts(IF \E i \in DOMAIN order : order[i] = Head(puts)
                 THEN order ELSE Append(order, Head(puts)),
                 Tail(puts))

\* lines 181-185: the file system after open(local_path, 'wb') and write
WriteFile(local_path, body) ==
  (AbsOf[local_path] :> [url |-> current, body |-> body]) @@ files

\* lines 143-185: map the address to a file, and save the (rewritten) content
Save ==
  /\ UNCHANGED urlVars
  /\ pc = "save"
  /\ \E local_path \in {LocalPathOf[current][response.content_type]} :
     \E current_dir \in {CurrentDirOf[local_path]} :
     \E ds \in {ensure_directory_dirs(local_path)} :
        IF current \in ParseRaises
        THEN /\ pc' = "raised"
             /\ UNCHANGED <<dirs, files, q, found, written, rewrites,
                           enqueued, linked>>
        ELSE IF ensure_directory_raises(local_path)
        THEN /\ pc' = "raised"
             /\ dirs' = ds
             /\ UNCHANGED <<files, q, found, written, rewrites, enqueued, linked>>
        ELSE IF IsHtml(response.content_type)
        THEN \E ord \in OrdersOf[response.content] :
             \E repl \in {ReplacementsOf[response.content][ord][current_dir]} :
                  /\ dirs' = ds
                  /\ q' = Enqueue(q, ord, visited)
                  /\ enqueued' = FirstPuts(enqueued, Enqueue(<<>>, ord, visited))
                  /\ linked' = linked \cup
                       {<<current, l>> : l \in LinksOf[response.content]}
                  /\ found' = found \cup LinksOf[response.content]
                  /\ IF \E k \in DOMAIN ord :
                          OriginalOf[ord[k]].ok /\ ord[k] \in ParseRaises
                     THEN /\ pc' = "raised"
                          /\ UNCHANGED <<files, written, rewrites>>
                     ELSE /\ rewrites' = rewrites \cup
                               {[doc |-> current, link |-> repl[k].link,
                                 target |-> repl[k].target, rel |-> repl[k].rel] :
                                  k \in DOMAIN repl}
                          /\ IF open_raises(local_path, ds)
                             THEN /\ pc' = "raised"
                                  /\ UNCHANGED <<files, written>>
                             ELSE /\ pc' = "sleep"
                                  /\ files' = WriteFile(local_path,
                                       RewrittenOf[response.content][ord][current_dir])
                                  /\ written' = Append(written,
                                       [url |-> current, path |-> local_path])
        ELSE /\ dirs' = ds
             /\ UNCHANGED <<q, found, rewrites, enqueued, linked>>
             /\ IF open_raises(local_path, ds)
                THEN /\ pc' = "raised"
                     /\ UNCHANGED <<files, written>>
                ELSE /\ pc' = "sleep"
                     /\ files' = WriteFile(local_path, response.content)
                     /\ written' = Append(written,
                          [url |-> current, path |-> local_path])
  /\ UNCHANGED <<start_archived_url, visited, current, response, fetched, paused>>

\* line 188
Sleep ==
  /\ UNCHANGED urlVars
  /\ pc = "sleep"
  /\ pc' = "loop"
  /\ paused' = TRUE
  /\ UNCHANGED <<dirs, files, start_archived_url, visited, q, current,
                 response, fetched, found, written, rewrites, enqueued, linked>>

Next == Start \/ Return \/ Dequeue \/ Fetch \/ Save \/ Sleep

Spec == Init /\ [][Next]_vars

SpecQuery == InitQuery /\ [][Next]_vars

\* the interpreter runs the program's next statement until crawl ends
FairSpec == Spec /\ WF_vars(Next)

(***************************************************************************)
(* The URL functions called on their own, on strings put together from     *)
(* the parts an archive reference is made of                               *)
(***************************************************************************)
Heads == {"", "//web.archive.org/web/", "/web/", "https://web.archive.org/web/",
          "http://web.archive.org/web/", "//web.archive.org/", "mailto:",
          "javascript:", "https://example.com/web/"}
Stamps == {"", SNAPSHOT_TIMESTAMP, "20240101000000", "2025040821401",
           "202504082140135"}
Modifiers == {"", "im_", "js_"}
Originals == {"https://example.com/", "http://example.com/a?b=c#d",
              "https://example.com/x/https://web.archive.org/web/20240101000000/http://e.com/",
              "ftp://example.com/f", "example.com/"}
Tails == {"", "void(0)", "_static/js/wombat.js"} \cup {"/" \o o : o \in Originals}

UrlInputs == {h \o s \o m \o t : h \in Heads, s \in Stamps, m \in Modifiers, t \in Tails}

InitUrl ==
  /\ InitCrawl
  /\ start_archived_url = Home
  /\ raw \in UrlInputs
  /\ result = None
  /\ call = "none"

Normalize ==
  /\ call = "none"
  /\ result' = normalize_archived_url(raw)
  /\ call' = "normalize"
  /\ UNCHANGED <<raw, crawlVars>>

Extract ==
  /\ call = "none"
  /\ result' = extract_original_url(raw)
  /\ call' = "extract"
  /\ UNCHANGED <<raw, crawlVars>>

\* is_in_snapshot called on raw; result is the boolean it returns
InSnapshotCall ==
  /\ call = "none"
  /\ result' = is_in_snapshot(raw)
  /\ call' = "in_snapshot"
  /\ UNCHANGED <<raw, crawlVars>>

NextUrl == Normalize \/ Extract \/ InSnapshotCall

SpecUrl == InitUrl /\ [][NextUrl]_vars

(***************************************************************************)
(* Properties                                                              *)
(***************************************************************************)
Range(f) == {f[i] : i \in DOMAIN f}

\* the number of calls of fetch on address a
FetchCount(a) == Cardinality({i \in DOMAIN fetched : fetched[i] = a})

\* the seed as crawl enqueues it
NormalizedStart ==
  IF NormalizedOf[start_archived_url].ok
  THEN NormalizedOf[start_archived_url].val ELSE start_archived_url

\* the addresses reachable from the seed through the markup fetched so far
Reachable == {NormalizedStart} \cup found

\* C1: fetch is called at most once per distinct address string; an address
\* is in the visited set when it is fetched; the visited set never loses an
\* element.
C1_AtMostOnceFetch ==
  /\ [](/\ \A a \in Range(fetched) : FetchCount(a) = 1 /\ a \in visited
        /\ pc = "fetch" => current \in visited /\ FetchCount(current) = 0)
  /\ [][visited \subseteq visited']_vars

\* a run has ended in which the seed was found again in a fetched document,
\* three or more addresses were fetched and one of the fetches failed
C1_Witness ==
  /\ pc = "done"
  /\ Home \in found
  /\ Len(fetched) >= 3
  /\ Cardinality(Range(fetched)) = Len(fetched)
  /\ Len(written) < Len(fetched)

\* C2: with every fetch returning, a run whose seed is in the snapshot
\* reaches 'frontier empty' (crawl returns), and then each address reachable
\* from the seed has been fetched exactly once.
C2_TerminatesFetchedOnce ==
  /\ (pc = "loop") ~> (pc = "done")
  /\ [](pc = "done" => \A a \in Reachable : FetchCount(a) = 1)

\* C3: every address in the frontier, in the visited set and passed to fetch
\* is in the snapshot.
C3_FrontierInSnapshot ==
  \A a \in Range(q) \cup visited \cup Range(fetched) : is_in_snapshot(a)

\* a fetched document referred to an address outside the snapshot, and the
\* frontier holds what was admitted from it
C3_Witness ==
  /\ pc = "sleep"
  /\ IsHtml(response.content_type)
  /\ OtherCapture \in Range(response.content)
  /\ q # <<>>
  /\ OtherCapture \notin Range(q)

\* C4: a seed that is not in the snapshot ends the run by exit, with no fetch
\* made and no file written; and a run ends with a non-empty or never-seeded
\* frontier on this path only.
C4_FatalSeedOnlyAbort ==
  /\ pc = "exit" => fetched = <<>> /\ DOMAIN files = {} /\ written = <<>>
  /\ ~is_in_snapshot(NormalizedStart) /\ pc # "start" => pc = "exit"
  /\ pc \in {"done", "exit", "raised"} /\ (q # <<>> \/ visited = {})
       => pc = "exit" /\ ~is_in_snapshot(NormalizedStart)

\* the step is a failed fetch
FetchFails == pc = "fetch" /\ pc' = "loop" /\ ~response'.ok

\* fetch has just failed on current while address a waits in the frontier
FailedWhileQueued(a) ==
  /\ pc = "loop"
  /\ ~response.ok
  /\ fetched # <<>>
  /\ fetched[Len(fetched)] = current
  /\ a \in Range(q)

\* C5: a failed fetch writes no file and enqueues no link, its address stays
\* visited and is never fetched again, and every address that is in the
\* frontier at that moment is still dequeued.
C5_FetchFailureContained ==
  /\ [][FetchFails => /\ files' = files /\ dirs' = dirs /\ q' = q
                      /\ found' = found /\ current \in visited']_vars
  /\ [](\A a \in Range(fetched) : FetchCount(a) = 1 /\ a \in visited)
  /\ \A a \in InSnapshot : FailedWhileQueued(a) ~> (a \notin Range(q))

\* C6: the destination computed for a link when the document that carries it
\* was rewritten is the destination its content is saved to when it is
\* fetched.
C6_RewriteTargetIsSavedFile ==
  \A r \in rewrites : \A i \in DOMAIN written :
     written[i].url = r.link => written[i].path = r.target

\* C7: every file crawl writes lies inside the output directory.
C7_OutputConfined ==
  \A p \in DOMAIN files : StartsWith(p, abspath(OutDir) \o "/")

\* C8: once the seed has passed the check, nothing aborts the run: crawl
\* never ends by an exception, whatever the fetches return and whatever
\* destinations are computed.
C8_RunToExhaustion ==
  /\ pc # "raised"
  /\ pc \in {"done", "raised"} => q = <<>> /\ Reachable \subseteq visited

\* the strings <ts><modifier>/<R> that name a resource of a capture
ArchivePaths ==
  {st \o m \o "/" \o o : st \in Stamps \ {""}, m \in Modifiers, o \in Originals}

\* the spellings of an archive reference: protocol-relative, path-only and
\* fully-qualified (one that begins with WAYBACK_PREFIX is fully-qualified)
AcceptedHeads == {"//web.archive.org/web/", "/web/", "https://web.archive.org/web/"}

HasAcceptedForm(x) == \E h \in AcceptedHeads, r \in ArchivePaths : x = h \o r

\* the accepted spellings of one resource all map to the one canonical address
CanonicalForms ==
  \A h \in AcceptedHeads, r \in ArchivePaths :
     raw = h \o r => result = Some("https://web.archive.org/web/" \o r)

\* C9 as stated: the accepted spellings of a resource map to the one
\* canonical address, and every input that has none of these forms maps to
\* none.
C9_AsStated ==
  call = "normalize" =>
    /\ CanonicalForms
    /\ ~HasAcceptedForm(raw) => result = None

\* C9: the accepted spellings of a resource map to the one canonical address,
\* and every input that does not begin with //web.archive.org/, /web/ or
\* https://web.archive.org/web/ maps to none.
C9_NormalizeCanonical ==
  call = "normalize" =>
    /\ CanonicalForms
    /\ (~\E h \in {"//web.archive.org/", "/web/", "https://web.archive.org/web/"} :
           StartsWith(raw, h)) => result = None

\* the path-only spelling of a resource with a capture modifier was normalised
C9_Witness ==
  /\ call = "normalize"
  /\ raw = "/web/" \o SNAPSHOT_TIMESTAMP \o "im_/https://example.com/"
  /\ result = Some(WAYBACK_PREFIX \o "im_/https://example.com/")

\* the original addresses that carry the scheme http or https
HttpOriginals ==
  {o \in Originals : StartsWith(o, "http://") \/ StartsWith(o, "https://")}

\* x is <scheme>://web.archive.org/web/<14 digits><modifier>/<an address of O>
HasArchiveShape(x, O) ==
  \E h \in {"https://web.archive.org/web/", "http://web.archive.org/web/"},
     st \in {t \in Stamps : Len(t) = 14}, m \in Modifiers, o \in O :
       x = h \o st \o m \o "/" \o o

\* extract_original_url gives back each original address of O from its
\* archived address, and none for an input that has not the archive shape
RoundTrips(O) ==
  call = "extract" =>
    /\ \A m \in Modifiers, o \in O :
         raw = WAYBACK_PREFIX \o m \o "/" \o o => result = Some(o)
    /\ ~HasArchiveShape(raw, O) => result = None

\* C10 as stated: the round trip gives back every original address.
C10_AsStated == RoundTrips(Originals)

\* C10: the round trip gives back every original address that begins with
\* http:// or https://; an input that has not the archive shape with such an
\* original gives none.
C10_ExtractRoundTrip == RoundTrips(HttpOriginals)

\* an archived address with a modifier, whose original itself contains an
\* archived address, was taken apart
C10_Witness ==
  /\ call = "extract"
  /\ raw = WAYBACK_PREFIX \o "im_/https://example.com/x/https://web.archive.org/web/20240101000000/http://e.com/"
  /\ result = Some("https://example.com/x/https://web.archive.org/web/20240101000000/http://e.com/")

\* the fully-qualified heads of an archive address, by scheme
ArchiveHeads == {"https://web.archive.org/web/", "http://web.archive.org/web/"}

\* the index of the last digit of the run of digits of s that begins at i
RECURSIVE DigitsEnd(_, _)
DigitsEnd(s, i) ==
  IF i <= Len(s) /\ Char(s, i) \in Digits THEN DigitsEnd(s, i + 1) ELSE i - 1

\* the timestamp component of x: the digits that follow the head h
TimestampAfter(x, h) == Slice(x, Len(h) + 1, DigitsEnd(x, Len(h) + 1))

\* C11 as stated: is_in_snapshot(x) is true iff x is a fully-qualified archive
\* address, of either scheme, whose timestamp component is exactly the
\* configured timestamp.
C11_AsStated ==
  call = "in_snapshot" =>
    (result <=> \E h \in ArchiveHeads :
                  StartsWith(raw, h) /\ TimestampAfter(raw, h) = SNAPSHOT_TIMESTAMP)

\* C11: is_in_snapshot(x) is true iff x begins with https://web.archive.org/web/
\* and the first 14 digits of its timestamp component are the configured
\* timestamp; so it is false for every address of the scheme http and for
\* every address whose timestamp is another string of at most 14 digits.
C11_InSnapshotPrefix ==
  call = "in_snapshot" =>
    /\ result <=>
         /\ StartsWith(raw, "https://web.archive.org/web/")
         /\ Slice(TimestampAfter(raw, "https://web.archive.org/web/"), 1, 14)
              = SNAPSHOT_TIMESTAMP
    /\ StartsWith(raw, "http://") => ~result
    /\ \A h \in ArchiveHeads :
         /\ StartsWith(raw, h)
         /\ Len(TimestampAfter(raw, h)) <= 14
         /\ TimestampAfter(raw, h) # SNAPSHOT_TIMESTAMP
         => ~result

\* an address of another capture, with a modifier, was classified not
\* in-snapshot
C11_Witness ==
  /\ call = "in_snapshot"
  /\ raw = "https://web.archive.org/web/20240101000000im_/https://example.com/"
  /\ result = FALSE

\* a markup document has just been saved: crawl is at the pause after it
SavedMarkup == pc = "sleep" /\ IsHtml(response.content_type)

\* the directory of the file the document just saved was written to
SavedDir == CurrentDirOf[LocalPathOf[current][response.content_type]]

\* the text of the file the document just saved was written to
SavedText == files[AbsOf[LocalPathOf[current][response.content_type]]].body

\* no replacement value of the map contains the literal text of a key
NoValueHoldsKey(repl) ==
  \A i, j \in DOMAIN repl : ~Contains(repl[i].rel, repl[j].link)

\* C12: when no replacement value contains the literal text of a key, the
\* saved text of a markup document is the text the rewrite loop gives in
\* every order of the keys.
C12_RewriteOrderIndependent ==
  SavedMarkup =>
    \A ord \in OrdersOf[response.content] :
       NoValueHoldsKey(ReplacementsOf[response.content][ord][SavedDir])
         => SavedText = RewrittenOf[response.content][ord][SavedDir]

\* the entries of the replacement map of the document just saved
SavedReplacements == {r \in rewrites : r.doc = current}

DegradedPath == guess_local_path(OutDir, current, response.content_type)

\* C14: when the fetched address has no recoverable original, crawl maps
\* the archived address itself to the destination, writes the content
\* there, enqueues the links of a markup document that are not yet visited,
\* and goes on to the pause and the next iteration.
C14_UnrecoverableDegraded ==
  [][pc = "save" /\ ~OriginalOf[current].ok =>
       /\ pc' = "sleep"
       /\ written' = Append(written, [url |-> current, path |-> DegradedPath])
       /\ abspath(DegradedPath) \in DOMAIN files'
       /\ files'[abspath(DegradedPath)].url = current
       /\ IsHtml(response.content_type) =>
            \A l \in LinksOf[response.content] \ visited : l \in Range(q')]_vars

\* C15: when fetch is called and it is not the first call of the run, a
\* pause was made since the call before it, whether that call succeeded or
\* failed.
C15_PauseBetweenFetches ==
  pc = "fetch" /\ fetched # <<>> => paused

\* the position of address a in the sequence s of distinct addresses, 0 if
\* it is not there
Pos(s, a) == IF \E i \in DOMAIN s : s[i] = a
             THEN CHOOSE i \in DOMAIN s : s[i] = a ELSE 0

\* the addresses the documents of D link to
LinkedFrom(D) == {e[2] : e \in {l \in linked : l[1] \in D}}

\* the link-distance of a from the addresses of level, which lie at distance
\* d, seen being those at distance d or less; -1 if a is not reached
RECURSIVE DistFrom(_, _, _, _)
DistFrom(level, seen, d, a) ==
  IF a \in level THEN d
  ELSE IF level = {} THEN -1
  ELSE DistFrom(LinkedFrom(level) \ seen, seen \cup LinkedFrom(level), d + 1, a)

\* the link-distance of a from the seed through the markup fetched so far
Dist(a) == DistFrom({NormalizedStart}, {NormalizedStart}, 0, a)

\* C16: addresses are fetched in the order of their first enqueue: when Y
\* has been fetched, every X first enqueued before Y was fetched before it;
\* and an address is never fetched before one at a smaller link-distance
\* from the seed.
C16_BreadthFirstOrder ==
  \A pos \in {[a \in Range(enqueued) |-> Pos(fetched, a)]} :
  \A dist \in {[a \in Range(enqueued) |-> Dist(a)]} :
    /\ Range(fetched) \subseteq Range(enqueued)
    /\ \A i, j \in DOMAIN enqueued :
         i < j /\ pos[enqueued[j]] # 0
           => /\ pos[enqueued[i]] # 0
              /\ pos[enqueued[i]] < pos[enqueued[j]]
    /\ \A y \in Range(fetched) : \A x \in Range(enqueued) :
         dist[x] < dist[y] => pos[x] # 0 /\ pos[x] < pos[y]

\* a run has ended that fetched addresses at the distances 0, 1 and 2, one
\* of them linked from two documents
C16_Witness ==
  /\ pc = "done"
  /\ \E a \in Range(fetched) : Dist(a) = 2
  /\ \E e, f \in linked : e[2] = f[2] /\ e[1] # f[1] /\ Dist(e[2]) = 1
  /\ Len(fetched) >= 4

\* the addresses reachable from the seed along the links extracted from the
\* markup fetched so far
LinkClosure == {a \in {NormalizedStart} \cup LinkedFrom(Range(fetched)) : Dist(a) >= 0}

\* C17: when crawl returns with the frontier empty, every address reachable
\* from the seed along extracted links is in the visited set and was
\* passed to fetch exactly once.
C17_CrawlComplete ==
  pc = "done" =>
    /\ q = <<>>
    /\ \A a \in LinkClosure : a \in visited /\ FetchCount(a) = 1

\* a run has ended in which an address was extracted from two documents,
\* both fetched before it, so that it was put into the queue while it was
\* already there
C17_Witness ==
  /\ pc = "done"
  /\ \E e, f \in linked :
       /\ e[2] = f[2] /\ e[1] # f[1]
       /\ Pos(fetched, e[1]) < Pos(fetched, e[2])
       /\ Pos(fetched, f[1]) < Pos(fetched, e[2])
  /\ Cardinality(LinkClosure) >= 4

\* C18: no local file is written more than once in a run: two addresses
\* that were both saved have different destinations.
C18_DestinationUnique ==
  \A i, j \in DOMAIN written :
     i # j => AbsOf[written[i].path] # AbsOf[written[j].path]

====
